---- MODULE Spec2Model ----
(***************************************************************************)
(* A model of api/simple_http_server.py: the SimpleHTTPServer lifecycle    *)
(* (construction, initialize, run with port negotiation), the listener's   *)
(* accept loop, and the SimpleHTTPHandler request handlers with the        *)
(* synchronous bridge to the agent's asynchronous process call.            *)
(***************************************************************************)
EXTENDS Integers, Sequences, FiniteSets, TLC

(* ------------------------------ bounds --------------------------------- *)

\* Highest port number bind() accepts (65535 in the socket layer, scaled).
MaxPort == 4

\* Number of ports _find_free_port probes after the preferred one
\* (range(start_port + 1, start_port + 100) probes 99; scaled).
Window == 2

\* SimpleHTTPServer objects constructed in the process.
MaxServers == 2

\* Calls of run() over the whole process.
MaxRuns == 1

\* Longest conversation a session reaches.
MaxLen == 2

\* Calls of run() where the lifecycle is followed through shutdown().
MaxStarts == 2

(* --------------------------- the environment --------------------------- *)

Ports == 1..MaxPort

\* What bind((host, port)) does on a port: it succeeds, fails with
\* address-already-in-use, or fails for another reason (permission denied,
\* invalid address).
BindStatus == {"free", "inuse", "denied"}

Servers == 1..MaxServers

\* settings.SERVER_PORT, the port run() falls back to when given none.
SERVER_PORT == 2

None == [none |-> TRUE]

VARIABLES
  bindable,         \* [Ports -> BindStatus]: the host's ports
  nservers,         \* SimpleHTTPServer objects constructed so far
  server_instance,  \* SimpleHTTPHandler.server_instance (class variable)
  agent,            \* [Servers -> BOOLEAN]: default agent in s.agent_manager
  httpd,            \* [Servers -> Nat]: s.httpd, index in listeners, 0 = None
  server_thread,    \* [Servers -> Nat]: s.server_thread, 0 = None
  listeners,        \* every HTTPServer created, in creation order
  conv,             \* [Servers -> [Sessions -> Nat]]: conversation lengths
  expected,         \* [Servers -> [Sessions -> Nat]]: length at creation plus
                    \*   the successful process calls completed since
  active,           \* handlers blocked in the bridge, one record each
  last,             \* the last request handled to its end, with its response
  neg,              \* the last call of run(): probes made and outcome
  nrun,             \* calls of run() so far
  init,             \* the last call of initialize() and how it ended
  shutting,         \* the server whose shutdown() is blocked in
                    \*   httpd.shutdown(), 0 when none is
  shut,             \* the last call of shutdown() that returned
  stuck             \* handlers whose agent call never returns

vars == <<bindable, nservers, server_instance, agent, httpd, server_thread,
          listeners, conv, expected, active, last, neg, nrun, init,
          shutting, shut, stuck>>

(* --------------------------- port negotiation -------------------------- *)

\* The outcome of s.bind((host, port)) in _is_port_in_use: a port above the
\* valid range makes bind raise OverflowError, which is no socket.error.
BindOutcome(env, port) ==
  IF port > MaxPort THEN "overflow" ELSE env[port]

\* _is_port_in_use: False when the bind succeeds, True on any socket.error;
\* an exception that is no socket.error leaves the function.
\* "free" / "used" / "raise"
_is_port_in_use(env, port) ==
  CASE BindOutcome(env, port) = "free" -> "free"
    [] BindOutcome(env, port) = "overflow" -> "raise"
    [] OTHER -> "used"

\* The loop of _find_free_port from port p on: the ports probed so far are
\* in probed; the result names the port found, or how the loop ended.
RECURSIVE FindLoop(_, _, _, _)
FindLoop(env, p, stop, probed) ==
  IF p >= stop
  THEN [result |-> "exhausted", port |-> 0, probed |-> probed]
  ELSE LET r == _is_port_in_use(env, p) IN
       CASE r = "free"  -> [result |-> "ok", port |-> p,
                            probed |-> Append(probed, p)]
         [] r = "raise" -> [result |-> "raise", port |-> 0,
                            probed |-> Append(probed, p)]
         [] OTHER -> FindLoop(env, p + 1, stop, Append(probed, p))

\* A search that skips the first port of the window.
FindFromSecond(env, start_port, probed) ==
  FindLoop(env, start_port + 2, start_port + Window + 1, probed)

\* _find_free_port: for port in range(start_port + 1, start_port + 100).
_find_free_port(env, start_port, probed) ==
  FindLoop(env, start_port + 1, start_port + Window + 1, probed)

\* Lines 253-256 of run(): the preferred port when its probe binds, else
\* the port _find_free_port returns.
Negotiate(env, port) ==
  LET r == _is_port_in_use(env, port) IN
  CASE r = "free"  -> [result |-> "ok", port |-> port, probed |-> <<port>>]
    [] r = "raise" -> [result |-> "raise", port |-> 0, probed |-> <<port>>]
    [] OTHER -> _find_free_port(env, port, <<port>>)

(* ------------------------------ requests ------------------------------- *)

Sessions == {"default", "s1"}

\* A request body: bytes that are no UTF-8, text that is no JSON, or a JSON
\* document.  Of the decoded value the handler reads its type, whether
\* ('message' in value) holds, and its session_id ("absent" when not given).
NoJson(raw) == [raw |-> raw, type |-> "none", has |-> FALSE, sid |-> "absent"]
Json(type, has, sid) == [raw |-> "json", type |-> type, has |-> has, sid |-> sid]

Bodies ==
  {NoJson("badutf8"), NoJson("notjson")}
  \cup {Json("object", TRUE, sid) : sid \in {"absent", "s1"}}
  \cup {Json("object", FALSE, "absent")}
  \cup {Json(t, h, "absent") : t \in {"array", "string"}, h \in BOOLEAN}
  \cup {Json("scalar", FALSE, "absent")}

WellFormed == Json("object", TRUE, "absent")

Req(method, path, clen, body, wfail) ==
  [method |-> method, path |-> path, clen |-> clen, body |-> body,
   wfail |-> wfail]

Paths == {"/", "/health", "/docs", "/chat", "/nope"}

\* The requests a client sends, each with the set W of the calls of
\* wfile.write (counted per request) that raise; header and body vary where
\* a handler reads them (POST /chat).
RequestsWith(W) ==
  {Req("GET", p, "ok", WellFormed, w) : p \in Paths, w \in W}
  \cup {Req(m, p, "ok", WellFormed, w) :
     m \in {"POST", "PUT"}, p \in {"/", "/nope"}, w \in W}
  \cup {Req("PUT", "/chat", "ok", WellFormed, w) : w \in W}
  \cup {Req("POST", "/chat", c, WellFormed, w) :
     c \in {"missing", "nonnumeric"}, w \in W}
  \cup {Req("POST", "/chat", "ok", b, w) : b \in Bodies, w \in W}

\* Requests on a connection every write to which succeeds.
Requests == RequestsWith({{}})

(* ----------------------------- the responses --------------------------- *)

\* What a handler writes: wire is what reached the connection, hbuf the
\* status lines buffered by send_response, n the calls of wfile.write made,
\* exc whether an exception is propagating (emsg its text).
NewIO == [wire |-> <<>>, hbuf |-> <<>>, n |-> 0, exc |-> FALSE, emsg |-> ""]

HeadChunk(codes) == [kind |-> "head", codes |-> codes]
BodyChunk(data) == [kind |-> "body", data |-> data]

\* send_response(status_code): the status line is buffered.
send_response(io, status_code) ==
  IF io.exc THEN io ELSE [io EXCEPT !.hbuf = Append(@, status_code)]

\* One call of wfile.write; a failed write raises and writes nothing.
Write(io, wfail, chunk) ==
  IF io.exc THEN io
  ELSE IF (io.n + 1) \in wfail
       THEN [io EXCEPT !.n = @ + 1, !.exc = TRUE, !.emsg = "write failed"]
       ELSE [io EXCEPT !.n = @ + 1, !.wire = Append(@, chunk)]

\* end_headers(): the buffered header block is written, and the buffer is
\* emptied once the write has returned.
end_headers(io, wfail) ==
  LET w == Write(io, wfail, HeadChunk(io.hbuf)) IN
  IF w.exc THEN w ELSE [w EXCEPT !.hbuf = <<>>]

_send_json_response(io, wfail, data, status_code) ==
  Write(end_headers(send_response(io, status_code), wfail), wfail, BodyChunk(data))

_send_html_response(io, wfail, html) ==
  Write(end_headers(send_response(io, 200), wfail), wfail, BodyChunk(html))

ErrorEnvelope(status_code, message) ==
  [error |-> message, status_code |-> status_code, timestamp |-> "iso"]

_send_error(io, wfail, status_code, message) ==
  _send_json_response(io, wfail, ErrorEnvelope(status_code, message),
                      status_code)

(* ------------------------------ the handlers --------------------------- *)

RootInfo == [message |-> "Welcome to Polytool API", status |-> "running"]

Health(count) ==
  [status |-> "healthy", timestamp |-> "iso", server |-> "simple_http",
   agents_count |-> count]

DocsPage == [html |-> "docs"]

\* do_GET; si is SimpleHTTPHandler.server_instance (0 for None) and count
\* the number of agents in its directory.  An exception leaves the handler.
do_GET(path, wfail, si, count) ==
  CASE path = "/" -> _send_json_response(NewIO, wfail, RootInfo, 200)
    [] path = "/health" ->
         _send_json_response(NewIO, wfail,
                             Health(IF si # 0 THEN count ELSE 0), 200)
    [] path = "/docs" -> _send_html_response(NewIO, wfail, DocsPage)
    [] OTHER -> _send_error(NewIO, wfail, 404, "Not Found")

\* A request method the handler class defines no do_ method for: the base
\* class answers 501 with its own HTML error page.
UnsupportedPage == [html |-> "Unsupported method"]

do_OTHER(wfail) ==
  Write(end_headers(send_response(NewIO, 501), wfail), wfail,
        BodyChunk(UnsupportedPage))

Raise(msg) == [NewIO EXCEPT !.exc = TRUE, !.emsg = msg]

\* How far do_POST gets on /chat before anything is written (lines 86-105
\* and 203-223): the step that ends the try body, or "invoke" when the
\* agent's process coroutine is started.
ChatStage(req, si, hasAgent) ==
  CASE req.clen = "missing"    -> "exc_header"    \* int(None): TypeError
    [] req.clen = "nonnumeric" -> "exc_header"    \* int('x'): ValueError
    [] req.body.raw = "badutf8" -> "exc_decode"   \* UnicodeDecodeError
    [] req.body.raw = "notjson" -> "invalid_json" \* json.JSONDecodeError
    [] req.body.type = "scalar" -> "exc_in"       \* 'message' in 5: TypeError
    [] ~req.body.has            -> "missing_field"
    [] si = 0                   -> "no_server"
    [] ~hasAgent                -> "no_agent"     \* get_agent returned None
    [] req.body.type # "object" -> "exc_index"    \* request_data["message"]
    [] OTHER                    -> "invoke"

\* request_data.get("session_id", "default")
SessionOf(req) == IF req.body.sid = "absent" THEN "default" ELSE req.body.sid

ChatError(message) ==
  [status |-> "error", message |-> message, timestamp |-> "iso"]

ChatSuccess(session_id, conversation_length) ==
  [status |-> "success", response |-> "reply", session_id |-> session_id,
   timestamp |-> "iso", conversation_length |-> conversation_length]

\* A bridge that answers every success with the default session.
ProcessChatDefaultSession(req, stage, outcome, length) ==
  CASE stage = "no_agent"  -> ChatError("ChatBot not initialized")
    [] stage = "exc_index" -> ChatError("TypeError")
    [] outcome = "success" -> ChatSuccess("default", length)
    [] outcome = "fail"    -> ChatError("agent failed")
    [] OTHER               -> ChatError("agent raised")

\* The value _process_chat_sync returns.  outcome is how the agent's
\* process call ended ("success", "fail", "raise"; "none" when it was not
\* started) and length the conversation_length of its result.
_process_chat_sync(req, stage, outcome, length) ==
  CASE stage = "no_agent"  -> ChatError("ChatBot not initialized")
    [] stage = "exc_index" -> ChatError("TypeError")
    [] outcome = "success" -> ChatSuccess(SessionOf(req), length)
    [] outcome = "fail"    -> ChatError("agent failed")
    [] OTHER               -> ChatError("agent raised")

\* A try body into which the agent's exception propagates from the bridge.
ChatTryBridgeRaises(req, stage, outcome, length) ==
  CASE stage \in {"exc_header", "exc_decode", "exc_in"} -> Raise(stage)
    [] stage = "invalid_json" ->
         _send_error(NewIO, req.wfail, 400, "Invalid JSON")
    [] stage = "missing_field" ->
         _send_error(NewIO, req.wfail, 400, "Missing 'message' field")
    [] stage = "no_server" ->
         _send_error(NewIO, req.wfail, 500, "Server not initialized")
    [] outcome = "raise" -> Raise("agent raised")
    [] OTHER ->
         _send_json_response(NewIO, req.wfail,
                             _process_chat_sync(req, stage, outcome, length),
                             200)

\* The try body of do_POST for /chat (lines 86-108).
ChatTry(req, stage, outcome, length) ==
  CASE stage \in {"exc_header", "exc_decode", "exc_in"} -> Raise(stage)
    [] stage = "invalid_json" ->
         _send_error(NewIO, req.wfail, 400, "Invalid JSON")
    [] stage = "missing_field" ->
         _send_error(NewIO, req.wfail, 400, "Missing 'message' field")
    [] stage = "no_server" ->
         _send_error(NewIO, req.wfail, 500, "Server not initialized")
    [] OTHER ->
         _send_json_response(NewIO, req.wfail,
                             _process_chat_sync(req, stage, outcome, length),
                             200)

\* except Exception as e (lines 110-111): the catch-all answers 500; an
\* exception raised while it writes leaves the handler.
ChatExcept(io, wfail) ==
  IF io.exc
  THEN _send_error([io EXCEPT !.exc = FALSE], wfail, 500,
                   "Internal server error")
  ELSE io

\* do_POST (lines 80-113).
do_POST(req, stage, outcome, length) ==
  IF req.path = "/chat"
  THEN ChatExcept(ChatTry(req, stage, outcome, length), req.wfail)
  ELSE _send_error(NewIO, req.wfail, 404, "Not Found")

\* The handler the base class dispatches a request to.
Handle(req, si, count, stage, outcome, length) ==
  CASE req.method = "GET"  -> do_GET(req.path, req.wfail, si, count)
    [] req.method = "POST" -> do_POST(req, stage, outcome, length)
    [] OTHER -> do_OTHER(req.wfail)

(* ------------------------------- the agent ----------------------------- *)

\* The agent's process coroutine, from its interface: it reads the
\* session's history when it starts, suspends while the reply is produced,
\* and on success stores the history one turn longer and reports the new
\* length as conversation_length.
ProcessRead(history, session_id) == history[session_id]

ProcessStore(history, session_id, length) ==
  [history EXCEPT ![session_id] = length + 1]

NoHistory == [sid \in Sessions |-> 0]

(* ------------------------------ the lifecycle -------------------------- *)

AllFree == [p \in Ports |-> "free"]

InitRest ==
  /\ nservers = 1
  /\ server_instance = 1
  /\ agent = [s \in Servers |-> FALSE]
  /\ httpd = [s \in Servers |-> 0]
  /\ server_thread = [s \in Servers |-> 0]
  /\ listeners = <<>>
  /\ conv = [s \in Servers |-> NoHistory]
  /\ expected = [s \in Servers |-> NoHistory]
  /\ active = {}
  /\ last = None
  /\ neg = None
  /\ nrun = 0
  /\ init = None
  /\ shutting = 0
  /\ shut = None
  /\ stuck = {}

\* The state after SimpleHTTPServer() has returned, every port bindable.
Init == bindable = AllFree /\ InitRest

\* The same, on a host whose ports are in any condition.
InitPorts == bindable \in [Ports -> BindStatus] /\ InitRest

\* SimpleHTTPServer.__init__ (lines 149-164): a new object with its own
\* AgentManager, no listener, and the handler class pointed at it.
Construct ==
  /\ nservers < MaxServers
  /\ nservers' = nservers + 1
  /\ server_instance' = nservers + 1
  /\ UNCHANGED <<bindable, agent, httpd, server_thread, listeners, conv,
                 expected, active, last, neg, nrun, init, shutting, shut,
                 stuck>>

\* An initialize() that logs the failure of create_agent and returns.
CreateSwallowed(created) == [agent |-> created, raised |-> FALSE]

\* _create_default_chatbot (lines 185-197): create_agent is called once; it
\* puts the default agent into the directory, or it raises and the
\* exception is logged and re-raised.
_create_default_chatbot(created) == [agent |-> created, raised |-> ~created]

\* initialize() (lines 166-183): an exception of _create_default_chatbot
\* leaves initialize().  created: whether create_agent succeeds.
Initialize(s, created) ==
  /\ s \in 1..nservers
  /\ LET c == _create_default_chatbot(created)
     IN /\ agent' = [agent EXCEPT ![s] = @ \/ c.agent]
        /\ init' = [server |-> s, created |-> created, raised |-> c.raised]
  /\ UNCHANGED <<bindable, nservers, server_instance, httpd, server_thread,
                 listeners, conv, expected, active, last, neg, nrun,
                 shutting, shut, stuck>>

\* HTTPServer((host, port), SimpleHTTPHandler) (line 265) with its thread
\* (lines 268-270): the socket is bound and listening, serve_forever runs.
HTTPServer(port, owner) ==
  [port |-> port, owner |-> owner, sock |-> "open", released |-> 0,
   loop |-> "serving", shutdown_request |-> FALSE]

\* run(host, port) (lines 248-283) up to the start of the listener thread.
\* port 0 stands for no port given.  raced: another process binds the
\* negotiated port between the probe and HTTPServer's own bind, which then
\* raises.
Run(s, port, raced) ==
  /\ s \in 1..nservers
  /\ LET preferred == IF port = 0 THEN SERVER_PORT ELSE port
         n == Negotiate(bindable, preferred)
         started == n.result = "ok" /\ ~raced
         lid == Len(listeners) + 1
     IN /\ nrun' = nrun + 1
        /\ neg' = [server |-> s, preferred |-> preferred, env |-> bindable,
                   result |-> n.result, port |-> n.port,
                   probed |-> n.probed, before |-> Len(listeners),
                   raced |-> raced, raised |-> ~started]
        /\ bindable' = IF n.result = "ok"
                       THEN [bindable EXCEPT ![n.port] = "inuse"]
                       ELSE bindable
        /\ listeners' = IF started
                        THEN Append(listeners, HTTPServer(n.port, s))
                        ELSE listeners
        /\ httpd' = IF started THEN [httpd EXCEPT ![s] = lid] ELSE httpd
        /\ server_thread' = IF started
                            THEN [server_thread EXCEPT ![s] = lid]
                            ELSE server_thread
  /\ UNCHANGED <<nservers, server_instance, agent, conv, expected, active,
                 last, init, shutting, shut, stuck>>

(* ---------------------------- the accept loop -------------------------- *)

\* A listener that hands every connection to a thread of its own.
ThreadingReady(l) == Cardinality({h \in active : h.lid = l}) < 2

\* HTTPServer.serve_forever (lines 265 and 268): one thread per listener,
\* which takes the next connection when the handler before has returned.
ServeForeverReady(l) == \A h \in active : h.lid # l

\* serve_forever's loop of l still runs and no shutdown was requested of it
\* (socketserver: while not self.__shutdown_request).
Serving(l) ==
  listeners[l].loop = "serving" /\ ~listeners[l].shutdown_request

\* A handler object is made per connection; conn tells apart the handlers
\* that are alive at the same time.
FreshConn ==
  CHOOSE c \in 1..(Cardinality(active) + 1) : \A h \in active : h.conn # c

Exchange(l, req, si, stage, outcome, length, io) ==
  [lid |-> l, req |-> req, si |-> si, stage |-> stage, outcome |-> outcome,
   length |-> length, wire |-> io.wire, raised |-> io.exc]

\* The listener l accepts a connection and its thread handles the request,
\* to the end or up to the point where the bridge blocks in the agent call
\* (loop.run_until_complete, line 219).
Accept(l, req) ==
  /\ l \in 1..Len(listeners)
  /\ Serving(l)
  /\ ServeForeverReady(l)
  /\ LET si == server_instance
         count == IF agent[si] THEN 1 ELSE 0
         stage == IF req.method = "POST" /\ req.path = "/chat"
                  THEN ChatStage(req, si, agent[si]) ELSE "none"
     IN IF stage = "invoke"
        THEN /\ ProcessRead(conv[si], SessionOf(req)) < MaxLen
             /\ active' = active \cup
                  {[lid |-> l, conn |-> FreshConn, req |-> req, si |-> si,
                    read |-> ProcessRead(conv[si], SessionOf(req))]}
             /\ last' = last
        ELSE /\ active' = active
             /\ last' = Exchange(l, req, si, stage, "none", 0,
                                 Handle(req, si, count, stage, "none", 0))
  /\ UNCHANGED <<bindable, nservers, server_instance, agent, httpd,
                 server_thread, listeners, conv, expected, neg, nrun, init,
                 shutting, shut, stuck>>

\* The agent's process call of handler h ends: with a success result, with
\* a result of another status, or with an exception; _process_chat_sync
\* returns and do_POST writes the response.
Complete(h, outcome) ==
  /\ h \in active
  /\ h \notin stuck
  /\ active' = active \ {h}
  /\ LET sid == SessionOf(h.req)
         length == IF outcome = "success" THEN h.read + 1 ELSE 0
     IN /\ conv' = IF outcome = "success"
                   THEN [conv EXCEPT ![h.si] = ProcessStore(@, sid, h.read)]
                   ELSE conv
        /\ expected' = IF outcome = "success"
                       THEN [expected EXCEPT ![h.si][sid] = @ + 1]
                       ELSE expected
        /\ last' = Exchange(h.lid, h.req, h.si, "invoke", outcome, length,
                            do_POST(h.req, "invoke", outcome, length))
  /\ UNCHANGED <<bindable, nservers, server_instance, agent, httpd,
                 server_thread, listeners, neg, nrun, init, shutting, shut,
                 stuck>>

Outcomes == {"success", "fail", "raise"}

(* -------------------------------- shutdown ---------------------------- *)

\* The agent's process call of handler h turns out never to return: the
\* bridge stays in loop.run_until_complete (line 219), which has no timeout.
Hang(h) ==
  /\ h \in active
  /\ h \notin stuck
  /\ stuck' = stuck \cup {h}
  /\ UNCHANGED <<bindable, nservers, server_instance, agent, httpd,
                 server_thread, listeners, conv, expected, active, last, neg,
                 nrun, init, shutting, shut>>

\* httpd.server_close() (line 307): socket.close() releases the descriptor
\* on its first call and finds it released on a later one.
server_close(lst) ==
  IF lst.sock = "open"
  THEN [lst EXCEPT !.sock = "closed", !.released = @ + 1]
  ELSE lst

\* The listeners of server s whose socket is open.
OpenOf(ls, s) ==
  {i \in 1..Len(ls) : ls[i].owner = s /\ ls[i].sock = "open"}

\* The record of a shutdown() of s that returns; ls are the listeners then.
Returned(s, ls) == [server |-> s, httpd |-> httpd[s], open |-> OpenOf(ls, s)]

\* shutdown() (lines 301-312) is entered.  Without a listener
\* (self.httpd is None, and so is self.server_thread) it returns at once;
\* otherwise httpd.shutdown() (line 306) sets the listener's shutdown
\* request and waits, without a timeout, until serve_forever has left its
\* loop.
ShutdownBegin(s) ==
  /\ s \in 1..nservers
  /\ shutting = 0
  /\ IF httpd[s] = 0
     THEN /\ shut' = Returned(s, listeners)
          /\ UNCHANGED <<listeners, shutting>>
     ELSE /\ listeners' =
               [listeners EXCEPT ![httpd[s]].shutdown_request = TRUE]
          /\ shutting' = s
          /\ shut' = shut
  /\ UNCHANGED <<bindable, nservers, server_instance, agent, httpd,
                 server_thread, conv, expected, active, last, neg, nrun,
                 init, stuck>>

\* serve_forever of listener l, back from the handler of the connection
\* before, finds the shutdown request and leaves its loop.
LoopExit(l) ==
  /\ l \in 1..Len(listeners)
  /\ listeners[l].shutdown_request
  /\ listeners[l].loop = "serving"
  /\ ServeForeverReady(l)
  /\ listeners' = [listeners EXCEPT ![l].loop = "stopped",
                                    ![l].shutdown_request = FALSE]
  /\ UNCHANGED <<bindable, nservers, server_instance, agent, httpd,
                 server_thread, conv, expected, active, last, neg, nrun,
                 init, shutting, shut, stuck>>

\* httpd.shutdown() returns: server_close() (line 307), then
\* server_thread.join(timeout=5) (line 311) on the thread that has ended,
\* and shutdown() returns.
ShutdownEnd(s) ==
  /\ s \in 1..nservers
  /\ shutting = s
  /\ listeners[httpd[s]].loop = "stopped"
  /\ LET l == httpd[s]
         closed == [listeners EXCEPT ![l] = server_close(@)]
     IN /\ listeners' = closed
        /\ bindable' = IF listeners[l].sock = "open"
                       THEN [bindable EXCEPT ![listeners[l].port] = "free"]
                       ELSE bindable
        /\ shut' = Returned(s, closed)
  /\ shutting' = 0
  /\ UNCHANGED <<nservers, server_instance, agent, httpd, server_thread,
                 conv, expected, active, last, neg, nrun, init, stuck>>

(* ---------------------------- the specifications ----------------------- *)

\* Requests against a server whose initialize(), when called, succeeds.
Next ==
  \/ \E s \in Servers : Initialize(s, TRUE)
  \/ nrun < MaxRuns /\ \E s \in Servers, raced \in BOOLEAN : Run(s, 0, raced)
  \/ \E l \in 1..MaxRuns, req \in Requests : Accept(l, req)
  \/ \E h \in active, outcome \in Outcomes : Complete(h, outcome)

Spec == Init /\ [][Next]_vars

\* Construction and port negotiation, on every host.
NextPorts ==
  \/ Construct
  \/ /\ nrun < MaxRuns
     /\ \E s \in Servers, port \in 0..MaxPort, raced \in BOOLEAN :
          Run(s, port, raced)

SpecPorts == InitPorts /\ [][NextPorts]_vars

\* One server from initialize() through run() to shutdown(), the calls in
\* any order and number.  initialize() and run() are coroutines of the
\* event loop that a shutdown() waiting in httpd.shutdown() blocks.
NextLife ==
  \/ shutting = 0 /\ \E s \in Servers, created \in BOOLEAN : Initialize(s, created)
  \/ /\ shutting = 0
     /\ nrun < MaxStarts
     /\ \E s \in Servers, raced \in BOOLEAN : Run(s, 0, raced)
  \/ \E s \in Servers : ShutdownBegin(s)
  \/ \E l \in 1..MaxStarts : LoopExit(l)
  \/ \E s \in Servers : ShutdownEnd(s)

SpecLife == Init /\ [][NextLife]_vars

\* The chat request sent while a shutdown() may be under way.
HangRequests == {Req("POST", "/chat", "ok", WellFormed, {})}

\* A listener that serves chat requests, some of which never return from
\* the agent, and a shutdown() of its server.
NextHang ==
  \/ shutting = 0 /\ \E s \in Servers : Initialize(s, TRUE)
  \/ /\ shutting = 0
     /\ nrun < MaxRuns
     /\ \E s \in Servers : Run(s, 0, FALSE)
  \/ \E l \in 1..MaxRuns, req \in HangRequests : Accept(l, req)
  \/ \E h \in active, outcome \in Outcomes : Complete(h, outcome)
  \/ \E h \in active : Hang(h)
  \/ \E s \in Servers : ShutdownBegin(s)
  \/ \E l \in 1..MaxRuns : LoopExit(l)
  \/ \E s \in Servers : ShutdownEnd(s)

SpecHang == Init /\ [][NextHang]_vars

\* The requests sent while servers are constructed.
ServerRequests ==
  {Req("GET", "/health", "ok", WellFormed, {}),
   Req("POST", "/chat", "ok", WellFormed, {})}

\* Several SimpleHTTPServer objects in one process, and requests to the
\* listeners that are running.
NextServers ==
  \/ Construct
  \/ \E s \in Servers : Initialize(s, TRUE)
  \/ nrun < MaxRuns /\ \E s \in Servers : Run(s, 0, FALSE)
  \/ \E l \in 1..MaxRuns, req \in ServerRequests : Accept(l, req)
  \/ \E h \in active, outcome \in Outcomes : Complete(h, outcome)

SpecServers == Init /\ [][NextServers]_vars

\* The calls of wfile.write that fail on a connection: none, the first
\* (the header block), or the second (the body after a written header).
WriteFailures == {{}, {1}, {2}}

\* Requests on connections whose writes may fail.
NextWire ==
  \/ \E s \in Servers : Initialize(s, TRUE)
  \/ nrun < MaxRuns /\ \E s \in Servers : Run(s, 0, FALSE)
  \/ \E l \in 1..MaxRuns, req \in RequestsWith(WriteFailures) :
       Accept(l, req)
  \/ \E h \in active, outcome \in Outcomes : Complete(h, outcome)

SpecWire == Init /\ [][NextWire]_vars

(* ------------------------------ properties ----------------------------- *)

\* The ports of the search window of a preferred port.
WindowOf(preferred) == (preferred + 1)..(preferred + Window)

FreeIn(env, preferred) ==
  {p \in WindowOf(preferred) : p <= MaxPort /\ env[p] = "free"}

Lowest(S) == CHOOSE p \in S : \A q \in S : p <= q

ListenerCreated == neg # None /\ Len(listeners) > neg.before

\* C1: after a call of run(): a bindable preferred port is the port
\* negotiated; when the preferred port is already bound and its window
\* holds a bindable port, the lowest such port is negotiated, and it is not
\* the preferred port; when every port of the window is occupied,
\* negotiation ends with the port-exhausted error and no listener is
\* created.  A listener that is created listens on the negotiated port.
C1_PortNegotiation ==
  neg # None =>
    LET env == neg.env
        preferred == neg.preferred
        free == FreeIn(env, preferred)
    IN /\ env[preferred] = "free" =>
            neg.result = "ok" /\ neg.port = preferred
       /\ (env[preferred] = "inuse" /\ free # {}) =>
            /\ neg.result = "ok"
            /\ neg.port = Lowest(free)
            /\ neg.port # preferred
       /\ (env[preferred] = "inuse" /\
           \A p \in WindowOf(preferred) : p <= MaxPort /\ env[p] = "inuse") =>
            neg.result = "exhausted" /\ ~ListenerCreated
       /\ ListenerCreated =>
            listeners[Len(listeners)].port = neg.port

\* run() fell back past an occupied first port of the window and started
\* its listener there.
C1_Witness ==
  /\ ListenerCreated
  /\ neg.env[neg.preferred] = "inuse"
  /\ neg.env[neg.preferred + 1] = "inuse"
  /\ neg.port = neg.preferred + 2

\* C2: a probe whose bind fails for a reason other than
\* address-already-in-use is the last probe of the negotiation, and the
\* negotiation ends with that error raised to the caller.
C2_OtherBindFailureFatal ==
  neg # None =>
    \A i \in 1..Len(neg.probed) :
      (neg.probed[i] <= MaxPort /\ neg.env[neg.probed[i]] = "denied") =>
        i = Len(neg.probed) /\ neg.result = "raise"

IsChat(req) == req.method = "POST" /\ req.path = "/chat"

\* The wire holds one response: one header block with one status line of
\* the code, and one body.
Answered(wire, code, data) ==
  wire = <<HeadChunk(<<code>>), BodyChunk(data)>>

IsEnvelope(data) == DOMAIN data = {"error", "status_code", "timestamp"}

\* One response of the code whose body is an ErrorEnvelope of that code.
AnsweredError(wire, code) ==
  /\ Len(wire) = 2
  /\ wire[1] = HeadChunk(<<code>>)
  /\ wire[2].kind = "body"
  /\ IsEnvelope(wire[2].data)
  /\ wire[2].data.status_code = code

\* C3: a POST /chat whose agent call succeeded is answered 200 with status
\* "success", the request's session_id ("default" when it gives none) and
\* the conversation length the agent holds for that session, which is at
\* least 1.
C3_ChatSuccess ==
  (last # None /\ last.stage = "invoke" /\ last.outcome = "success") =>
    LET sid == IF last.req.body.sid = "absent" THEN "default"
               ELSE last.req.body.sid
    IN /\ ~last.raised
       /\ Len(last.wire) = 2
       /\ last.wire[1] = HeadChunk(<<200>>)
       /\ last.wire[2].kind = "body"
       /\ last.wire[2].data.status = "success"
       /\ last.wire[2].data.session_id = sid
       /\ last.wire[2].data.conversation_length = conv[last.si][sid]
       /\ last.wire[2].data.conversation_length >= 1

\* A chat request naming session "s1" was processed and answered 200.
C3_Witness ==
  /\ last # None
  /\ last.stage = "invoke"
  /\ last.outcome = "success"
  /\ last.req.body.sid = "s1"
  /\ Len(last.wire) = 2
  /\ last.wire[1] = HeadChunk(<<200>>)

\* C4: a POST /chat with a numeric Content-Length whose body is no UTF-8
\* text or no JSON is answered 400 with the ErrorEnvelope "Invalid JSON",
\* and the agent is not invoked.
C4_InvalidJson400 ==
  (last # None /\ IsChat(last.req) /\ last.req.clen = "ok"
     /\ last.req.body.raw \in {"badutf8", "notjson"}) =>
    /\ Answered(last.wire, 400, ErrorEnvelope(400, "Invalid JSON"))
    /\ last.stage # "invoke"

\* The decoded JSON value is an object with a message field.
HasMessageField(body) ==
  body.raw = "json" /\ body.type = "object" /\ body.has

\* C5: a POST /chat whose body is JSON of any type without a message field
\* is answered 400 with the ErrorEnvelope naming the missing field, and the
\* agent is not invoked.
C5_MissingField400 ==
  (last # None /\ IsChat(last.req) /\ last.req.clen = "ok"
     /\ last.req.body.raw = "json" /\ ~HasMessageField(last.req.body)) =>
    /\ Answered(last.wire, 400,
                ErrorEnvelope(400, "Missing 'message' field"))
    /\ last.stage # "invoke"

\* C6: a POST /chat with a missing or non-numeric Content-Length is
\* answered 400 with an ErrorEnvelope.
C6_BadContentLength400 ==
  (last # None /\ IsChat(last.req)
     /\ last.req.clen \in {"missing", "nonnumeric"}) =>
    AnsweredError(last.wire, 400)

\* C7: a well-formed POST /chat that finds no default agent in the agent
\* directory is answered with wire code 500 and status "error".
C7_NoAgent500 ==
  (last # None /\ last.stage = "no_agent") =>
    /\ Len(last.wire) = 2
    /\ last.wire[1] = HeadChunk(<<500>>)
    /\ last.wire[2].kind = "body"
    /\ last.wire[2].data.status = "error"

Routes ==
  {<<"GET", "/">>, <<"GET", "/health">>, <<"GET", "/docs">>,
   <<"POST", "/chat">>}

\* C8: a request of any method whose (method, path) is no route is
\* answered 404 with an ErrorEnvelope.
C8_Unmatched404 ==
  (last # None /\ <<last.req.method, last.req.path>> \notin Routes) =>
    AnsweredError(last.wire, 404)

\* A JSON body that reports an error: an error field, or status "error".
ReportsError(data) ==
  \/ "error" \in DOMAIN data
  \/ "status" \in DOMAIN data /\ data.status = "error"

\* C9: every response whose body reports an error has a non-2xx status
\* line and an ErrorEnvelope body whose status_code is the wire code.
C9_ErrorsAreEnvelopes ==
  (last # None /\ Len(last.wire) = 2 /\ last.wire[2].kind = "body"
     /\ ReportsError(last.wire[2].data)) =>
    /\ last.wire[1].kind = "head"
    /\ Len(last.wire[1].codes) = 1
    /\ last.wire[1].codes[1] \notin 200..299
    /\ IsEnvelope(last.wire[2].data)
    /\ last.wire[2].data.status_code = last.wire[1].codes[1]

\* C10: while one listener serves the process, whenever no chat request is
\* in flight every session's conversation length is its length at the
\* agent's creation plus the number of chat requests processed with
\* success: no update is lost or made twice.
C10_NoLostUpdate ==
  (Len(listeners) <= 1 /\ active = {}) =>
    \A s \in Servers, sid \in Sessions : conv[s][sid] = expected[s][sid]

\* Two chat requests of one session were processed, one after the other.
C10_Witness ==
  /\ Len(listeners) = 1
  /\ active = {}
  /\ last # None
  /\ last.stage = "invoke"
  /\ last.outcome = "success"
  /\ conv[1]["default"] >= 2

\* C11: shutdown() completes within a bounded wait, also when the listener
\* thread is unresponsive: a shutdown() that waits for its listener never
\* waits for a handler whose agent call never returns.
C11_ShutdownBounded ==
  shutting # 0 =>
    \A h \in active : h.lid = httpd[shutting] => h \notin stuck

\* The listeners server s has started so far.
StartedBy(s) == {l \in 1..Len(listeners) : listeners[l].owner = s}

\* C12: the lifecycle is linear: a server's listener is started only after
\* its default agent was created, and a server that has started a listener
\* (it reached LISTENING, or STOPPED after it) never starts another.
C12_LinearLifecycle ==
  \A s \in Servers :
    /\ httpd[s] # 0 => agent[s]
    /\ Cardinality(StartedBy(s)) <= 1

\* C13: errors of the startup phase are fatal and not retried.  A call of
\* initialize() whose agent creation fails raises, creates no agent and
\* starts no listener; a call of run() whose bind of the negotiated port
\* fails (the port was taken after the probe) raises and leaves the
\* listeners, self.httpd and self.server_thread as they were.
C13_StartupErrorsFatal ==
  [][/\ (init' # init /\ ~init'.created) =>
          /\ init'.raised
          /\ agent' = agent
          /\ listeners' = listeners
     /\ (neg' # neg /\ neg'.result = "ok" /\ neg'.raced) =>
          /\ neg'.raised
          /\ listeners' = listeners
          /\ httpd' = httpd
          /\ server_thread' = server_thread]_vars

\* An initialize() failed on agent creation and the run() after it failed
\* on the bind of the port it had negotiated.
C13_Witness ==
  /\ init # None /\ ~init.created /\ init.raised
  /\ neg # None /\ neg.result = "ok" /\ neg.raced /\ neg.raised
  /\ listeners = <<>>

\* C14: an exception raised by the agent's process coroutine does not leave
\* the bridge: the request is answered with the bridge's result of status
\* "error" carrying the exception's message, no exception leaves the
\* handler, and the listener's thread is free for the next connection.
C14_AgentExceptionContained ==
  [][(last' # last /\ last' # None /\ last'.stage = "invoke"
        /\ last'.outcome = "raise") =>
       /\ ~last'.raised
       /\ Len(last'.wire) = 2
       /\ last'.wire[2] = BodyChunk(ChatError("agent raised"))
       /\ listeners'[last'.lid].loop = "serving"
       /\ ~listeners'[last'.lid].shutdown_request
       /\ \A h \in active' : h.lid # last'.lid]_vars

\* The agent raised while a chat request was processed, and the request
\* was answered.
C14_Witness ==
  /\ last # None
  /\ last.stage = "invoke"
  /\ last.outcome = "raise"
  /\ Len(last.wire) = 2

\* An exception was raised inside the handler of exchange x: by a step of
\* the try body, or by one of the first two writes.
RaisedInside(x) ==
  \/ x.stage \in {"exc_header", "exc_decode", "exc_in"}
  \/ x.req.wfail \cap {1, 2} # {}

\* C15: on every route, GET as well as POST, an exception raised inside
\* the handler is caught and answered 500 with an ErrorEnvelope; it does
\* not leave the handler.
C15_HandlerExceptions500 ==
  (last # None /\ last.req.method \in {"GET", "POST"}
     /\ RaisedInside(last)) =>
    /\ ~last.raised
    /\ Len(last.wire) >= 2
    /\ last.wire[Len(last.wire) - 1].kind = "head"
    /\ 500 \in {last.wire[Len(last.wire) - 1].codes[i] :
                  i \in DOMAIN last.wire[Len(last.wire) - 1].codes}
    /\ last.wire[Len(last.wire)].kind = "body"
    /\ IsEnvelope(last.wire[Len(last.wire)].data)
    /\ last.wire[Len(last.wire)].data.status_code = 500

\* C16: the listening socket is released exactly once: no socket is
\* released twice, and when a shutdown() of a server has returned none of
\* the sockets its run() calls opened is open.
C16_SocketReleasedOnce ==
  /\ \A l \in 1..Len(listeners) : listeners[l].released <= 1
  /\ shut # None => shut.open = {}

\* C17: once a server listens its bound port never changes: every listener
\* a server has started is on the same port.
C17_PortNeverChanges ==
  \A s \in Servers : \A i, j \in StartedBy(s) :
    listeners[i].port = listeners[j].port

\* C18: a request accepted by a listener is handled against the server
\* that started the listener, whatever servers were constructed since.
C18_OwnServerState ==
  /\ last # None => last.si = listeners[last.lid].owner
  /\ \A h \in active : h.si = listeners[h.lid].owner

Heads(wire) == {i \in DOMAIN wire : wire[i].kind = "head"}

BodiesOf(wire) == {i \in DOMAIN wire : wire[i].kind = "body"}

\* C19: every handled GET or POST request produces exactly one response:
\* one header block with one status line and one body when the handler
\* returns, and never more than one of each when a failed write ends it.
C19_ExactlyOneResponse ==
  (last # None /\ last.req.method \in {"GET", "POST"}) =>
    /\ Cardinality(Heads(last.wire)) <= 1
    /\ Cardinality(BodiesOf(last.wire)) <= 1
    /\ \A i \in Heads(last.wire) : Len(last.wire[i].codes) = 1
    /\ ~last.raised =>
         /\ Cardinality(Heads(last.wire)) = 1
         /\ Cardinality(BodiesOf(last.wire)) = 1

====
